---- MODULE Spec2Model ----
(***************************************************************************)
(* Model of the sports-scores agent (src/src/index.ts): the upstream       *)
(* fetch helpers, the normalisers parseGame / parseScoreboard / parseTeams *)
(* and the entrypoint handlers with their fan-out joins                    *)
(* (Promise.allSettled, Promise.all with per-branch try/catch).            *)
(***************************************************************************)
EXTENDS Integers, Sequences, FiniteSets, TLC

VARIABLES
  pc,       \* position of the handler: "idle", "waiting" (awaiting the join), "done"
  req,      \* the request being handled: entrypoint key and validated input
  calls,    \* the upstream GETs issued by the handler, in the order it issued them
  net,      \* per issued call: "pending" or the upstream's answer
  branch,   \* per issued call: the promise of the handler's branch awaiting it
  order,    \* indices of the settled calls, in completion order
  served,   \* URLs an earlier request fetched successfully (observation only)
  resp,     \* outcome of the handler: none, an output envelope or an error
  event,    \* normalisers:       the upstream event handed to the parsers
  parsed    \* normalisers:       what parseGame / parseScoreboard returned

vars == <<pc, req, calls, net, branch, order, served, resp, event, parsed>>

\* result-count caps of the handlers
SampleCap == 2
TeamsCap == 10
NewsCap == 5
LeadersCap == 3
\* the dashboard's `.max(4)` and the schedule's `.max(7)`
DashboardMax == 4
DaysMax == 7

(***************************************************************************)
(* JavaScript values.  Every value is a record: a tagged primitive, a      *)
(* tagged list, or an object whose DOMAIN is the set of properties that    *)
(* are present.  Throw is the result of an expression that raised.         *)
(***************************************************************************)
Undef == [undefined |-> TRUE]
Null == [null |-> TRUE]
Throw == [throw |-> TRUE]
Str(s) == [str |-> s]
Num(n) == [num |-> n]
Bool(b) == [bool |-> b]
List(q) == [list |-> q]

IsUndef(v) == "undefined" \in DOMAIN v
IsNull(v) == "null" \in DOMAIN v
IsThrow(v) == "throw" \in DOMAIN v
IsStr(v) == "str" \in DOMAIN v
IsNum(v) == "num" \in DOMAIN v
IsBool(v) == "bool" \in DOMAIN v
IsList(v) == "list" \in DOMAIN v
Nullish(v) == IsUndef(v) \/ IsNull(v)

\* {} and { ...o, f: v }; a property whose value is undefined is left out
EmptyObj == [object |-> TRUE]
With(o, f, v) == [p \in (DOMAIN o) \cup {f} |-> IF p = f THEN v ELSE o[p]]
Put(o, f, v) == IF IsUndef(v) THEN o ELSE With(o, f, v)

\* o.f : a TypeError on undefined / null, undefined when the property is absent
Get(o, f) ==
  IF IsThrow(o) \/ Nullish(o) THEN Throw
  ELSE IF f \in DOMAIN o THEN o[f] ELSE Undef

\* o?.f : undefined on undefined / null
OptGet(o, f) ==
  IF IsThrow(o) THEN Throw
  ELSE IF Nullish(o) THEN Undef
  ELSE IF f \in DOMAIN o THEN o[f] ELSE Undef

\* o?.[0]
OptFirst(o) ==
  IF IsThrow(o) THEN Throw
  ELSE IF Nullish(o) THEN Undef
  ELSE IF IsList(o) /\ Len(o.list) > 0 THEN o.list[1] ELSE Undef

Truthy(v) ==
  /\ ~IsThrow(v)
  /\ ~Nullish(v)
  /\ ~(IsStr(v) /\ v.str = "")
  /\ ~(IsNum(v) /\ v.num = 0)
  /\ ~(IsBool(v) /\ ~v.bool)

\* a || b
Or(a, b) == IF IsThrow(a) THEN Throw ELSE IF Truthy(a) THEN a ELSE b

\* a === 'literal'
StrictEqStr(a, s) == IsStr(a) /\ a.str = s

\* the elements of a JavaScript array value (the callers pass arrays only)
Elems(v) == IF IsList(v) THEN v.list ELSE <<>>

RECURSIVE FindFrom(_, _, _, _)
FindFrom(q, f, s, i) ==
  IF i > Len(q) THEN Undef
  ELSE LET x == Get(q[i], f)
       IN IF IsThrow(x) THEN Throw
          ELSE IF StrictEqStr(x, s) THEN q[i]
          ELSE FindFrom(q, f, s, i + 1)

\* arr.find(t => t[f] === s)
Find(arr, f, s) == IF IsThrow(arr) THEN Throw ELSE FindFrom(Elems(arr), f, s, 1)

\* whether evaluating any of the listed sub-expressions raised
AnyThrow(q) == \E i \in 1..Len(q) : IsThrow(q[i])

(***************************************************************************)
(* parseGame (leagues variant)                                             *)
(***************************************************************************)
Side(t) ==
  IF IsThrow(t) THEN Throw
  ELSE IF ~Truthy(t) THEN Null
  ELSE LET team == Get(t, "team")
           nm == Or(OptGet(team, "displayName"), OptGet(team, "name"))
           ab == OptGet(team, "abbreviation")
           lg == OptGet(team, "logo")
       IN IF AnyThrow(<<team, nm, ab, lg>>) THEN Throw
          ELSE [name |-> nm, abbreviation |-> ab, score |-> Get(t, "score"),
                winner |-> Get(t, "winner"), logo |-> lg]

\* parseGame with `comp.status` written in place of `comp?.status`
parseGameStrictStatus(ev) ==
  LET comp == OptFirst(Get(ev, "competitions"))
      status == Get(comp, "status")
      teams == Or(OptGet(comp, "competitors"), List(<<>>))
      home == Side(Find(teams, "homeAway", "home"))
      away == Side(Find(teams, "homeAway", "away"))
      type == OptGet(status, "type")
      state == Or(OptGet(type, "state"), Str("unknown"))
      detail == Or(Or(OptGet(type, "detail"), OptGet(type, "description")), Str(""))
      venue == OptGet(OptGet(comp, "venue"), "fullName")
      name == Or(Get(ev, "shortName"), Get(ev, "name"))
  IN IF AnyThrow(<<comp, status, teams, home, away, type, state, detail, venue, name>>)
     THEN Throw
     ELSE [id |-> Get(ev, "id"),
           name |-> name,
           date |-> Get(ev, "date"),
           status |-> [state |-> state, detail |-> detail,
                       clock |-> OptGet(status, "displayClock"),
                       period |-> OptGet(status, "period")],
           home |-> home,
           away |-> away,
           venue |-> venue]

parseGame(ev) ==
  LET comp == OptFirst(Get(ev, "competitions"))
      status == OptGet(comp, "status")
      teams == Or(OptGet(comp, "competitors"), List(<<>>))
      home == Side(Find(teams, "homeAway", "home"))
      away == Side(Find(teams, "homeAway", "away"))
      type == OptGet(status, "type")
      state == Or(OptGet(type, "state"), Str("unknown"))
      detail == Or(Or(OptGet(type, "detail"), OptGet(type, "description")), Str(""))
      venue == OptGet(OptGet(comp, "venue"), "fullName")
      name == Or(Get(ev, "shortName"), Get(ev, "name"))
  IN IF AnyThrow(<<comp, status, teams, home, away, type, state, detail, venue, name>>)
     THEN Throw
     ELSE [id |-> Get(ev, "id"),
           name |-> name,
           date |-> Get(ev, "date"),
           status |-> [state |-> state, detail |-> detail,
                       clock |-> OptGet(status, "displayClock"),
                       period |-> OptGet(status, "period")],
           home |-> home,
           away |-> away,
           venue |-> venue]

\* arr.map(f) for a normaliser f given as its results: raises when an element raised
MapOrThrow(q) == IF AnyThrow(q) THEN Throw ELSE List(q)

(***************************************************************************)
(* parseScoreboard / parseTeams (sports variant)                           *)
(***************************************************************************)
Competitor(c) ==
  LET team == Get(c, "team")
  IN IF IsThrow(team) THEN Throw
     ELSE [name |-> OptGet(team, "displayName"),
           abbreviation |-> OptGet(team, "abbreviation"),
           score |-> Get(c, "score"),
           homeAway |-> Get(c, "homeAway"),
           winner |-> Get(c, "winner")]

parseEvent(ev, sport) ==
  LET competition == OptFirst(Get(ev, "competitions"))
      competitors == Or(OptGet(competition, "competitors"), List(<<>>))
      status == Or(OptGet(OptGet(Get(ev, "status"), "type"), "description"), Str("Unknown"))
      venue == OptGet(OptGet(competition, "venue"), "fullName")
      teams == IF IsThrow(competitors) THEN Throw
               ELSE MapOrThrow([i \in 1..Len(Elems(competitors)) |->
                                  Competitor(Elems(competitors)[i])])
  IN IF AnyThrow(<<competition, competitors, status, venue, teams>>) THEN Throw
     ELSE [id |-> Get(ev, "id"),
           name |-> Get(ev, "name"),
           date |-> Get(ev, "date"),
           status |-> status,
           venue |-> venue,
           teams |-> teams,
           sport |-> sport]

parseScoreboard(data, sport) ==
  LET events == Or(Get(data, "events"), List(<<>>))
  IN IF IsThrow(events) THEN Throw
     ELSE MapOrThrow([i \in 1..Len(Elems(events)) |-> parseEvent(Elems(events)[i], sport)])

Team(t, sport) ==
  LET team == Get(t, "team")
      logo == OptGet(OptFirst(OptGet(team, "logos")), "href")
  IN IF AnyThrow(<<team, logo>>) THEN Throw
     ELSE [id |-> OptGet(team, "id"),
           name |-> OptGet(team, "displayName"),
           abbreviation |-> OptGet(team, "abbreviation"),
           location |-> OptGet(team, "location"),
           logo |-> logo,
           sport |-> sport]

parseTeams(data, sport) ==
  LET league == OptFirst(OptGet(OptFirst(Get(data, "sports")), "leagues"))
      teams == Or(OptGet(league, "teams"), List(<<>>))
  IN IF AnyThrow(<<league, teams>>) THEN Throw
     ELSE MapOrThrow([i \in 1..Len(Elems(teams)) |-> Team(Elems(teams)[i], sport)])

(***************************************************************************)
(* Static configuration                                                    *)
(***************************************************************************)
LEAGUES ==
  ("nfl" :> [path |-> "football/nfl", name |-> "NFL"]) @@
  ("nba" :> [path |-> "basketball/nba", name |-> "NBA"]) @@
  ("premier-league" :> [path |-> "soccer/eng.1", name |-> "Premier League"]) @@
  ("la-liga" :> [path |-> "soccer/esp.1", name |-> "La Liga"]) @@
  ("mlb" :> [path |-> "baseball/mlb", name |-> "MLB"]) @@
  ("nhl" :> [path |-> "hockey/nhl", name |-> "NHL"]) @@
  ("college-football" :> [path |-> "football/college-football", name |-> "College Football"]) @@
  ("college-basketball" :> [path |-> "basketball/mens-college-basketball",
                            name |-> "College Basketball"])

SPORTS ==
  ("nba" :> [name |-> "NBA", path |-> "basketball/nba"]) @@
  ("nfl" :> [name |-> "NFL", path |-> "football/nfl"]) @@
  ("mlb" :> [name |-> "MLB", path |-> "baseball/mlb"]) @@
  ("nhl" :> [name |-> "NHL", path |-> "hockey/nhl"]) @@
  ("mls" :> [name |-> "MLS", path |-> "soccer/usa.1"])

\* Object.entries(SPORTS): the keys in insertion order
SportOrder == <<"nba", "nfl", "mlb", "nhl", "mls">>

\* the three leagues the free overview checks
overviewLeagueKeys == <<"nfl", "nba", "premier-league">>

\* ESPN_BASE/<path>/<resource>[?<query>]
Url(path, resource, query) == [path |-> path, resource |-> resource, query |-> query]

(***************************************************************************)
(* Promises and the upstream's answers                                     *)
(***************************************************************************)
Pending == [status |-> "pending"]
Fulfilled(v) == [status |-> "fulfilled", value |-> v]
Rejected(e) == [status |-> "rejected", reason |-> e]

\* what the upstream does with one GET: the transport fails, or an HTTP response
\* arrives whose body is JSON or cannot be parsed as JSON
NetError == [kind |-> "neterror"]
Unparsable == [unparsable |-> TRUE]
Http(status, body) == [kind |-> "http", status |-> status, body |-> body]
\* response.ok
Ok(ans) == ans.status >= 200 /\ ans.status <= 299

\* fetchJSON with the `!response.ok` check left out
fetchJSONUnchecked(ans) ==
  IF ans.kind = "neterror" THEN Rejected([error |-> "TypeError: fetch failed"])
  ELSE IF "unparsable" \in DOMAIN ans.body THEN Rejected([error |-> "SyntaxError"])
  ELSE Fulfilled(ans.body)

fetchJSON(ans) ==
  IF ans.kind = "neterror" THEN Rejected([error |-> "TypeError: fetch failed"])
  ELSE IF ~Ok(ans) THEN Rejected([error |-> "API error", code |-> ans.status])
  ELSE IF "unparsable" \in DOMAIN ans.body THEN Rejected([error |-> "SyntaxError"])
  ELSE Fulfilled(ans.body)

fetchESPN(ans) ==
  IF ans.kind = "neterror" THEN Rejected([error |-> "TypeError: fetch failed"])
  ELSE IF ~Ok(ans) THEN Rejected([error |-> "ESPN API error", code |-> ans.status])
  ELSE IF "unparsable" \in DOMAIN ans.body THEN Rejected([error |-> "SyntaxError"])
  ELSE Fulfilled(ans.body)

\* the URLs handed to fetch all go to the network: nothing is remembered between calls
FetchCached(urls, earlier) == SelectSeq(urls, LAMBDA u : u \notin earlier)

Fetch(urls, earlier) == urls

\* Promise.allSettled replaced by a join that rejects with the first rejection
PromiseAllSettledFailFast(branches, ord) ==
  IF \E k \in 1..Len(ord) : branches[ord[k]].status = "rejected"
  THEN branches[ord[CHOOSE k \in 1..Len(ord) :
                      /\ branches[ord[k]].status = "rejected"
                      /\ \A j \in 1..(k - 1) : branches[ord[j]].status # "rejected"]]
  ELSE IF \E i \in 1..Len(branches) : branches[i] = Pending THEN Pending
  ELSE Fulfilled(branches)

\* Promise.allSettled with the results in arrival order
PromiseAllSettledArrival(branches, ord) ==
  IF \E i \in 1..Len(branches) : branches[i] = Pending THEN Pending
  ELSE Fulfilled([k \in 1..Len(branches) |-> branches[ord[k]]])

\* Promise.allSettled: settles once every branch has, results in input order
PromiseAllSettled(branches, ord) ==
  IF \E i \in 1..Len(branches) : branches[i] = Pending THEN Pending
  ELSE Fulfilled(branches)

\* Promise.all: rejects with the first rejection to arrive, else fulfils with the
\* values in input order once every branch has fulfilled
PromiseAll(branches, ord) ==
  LET bad == {k \in 1..Len(ord) : branches[ord[k]].status = "rejected"}
  IN IF bad # {}
     THEN branches[ord[CHOOSE k \in bad : \A j \in bad : k <= j]]
     ELSE IF \E i \in 1..Len(branches) : branches[i] = Pending THEN Pending
     ELSE Fulfilled([i \in 1..Len(branches) |-> branches[i].value])

\* arr.filter(r => r.status === 'fulfilled').map(r => r.value)
FulfilledValues(results) ==
  LET kept == SelectSeq(results, LAMBDA r : r.status = "fulfilled")
  IN [i \in 1..Len(kept) |-> kept[i].value]

\* arr.slice(0, n) left out
SliceAll(q, n) == q

\* arr.slice(0, n)
Slice(q, n) == SubSeq(q, 1, IF Len(q) < n THEN Len(q) ELSE n)

\* arr.filter(pred).length
CountIf(q, P(_)) == Cardinality({i \in 1..Len(q) : P(q[i])})

RECURSIVE SumSeq(_)
SumSeq(q) == IF q = <<>> THEN 0 ELSE Head(q) + SumSeq(Tail(q))

\* arr.reduce((sum, x) => sum + f(x), 0)
SumOf(q, F(_)) == SumSeq([i \in 1..Len(q) |-> F(q[i])])

\* the response of a handler; NoResult while it has not produced one
NoResult == [none |-> TRUE]
Output(o) == [ok |-> TRUE, output |-> o]
Failure(e) == [ok |-> FALSE, error |-> e]

(***************************************************************************)
(* Awaiting: the continuation of an async function once a promise settles  *)
(***************************************************************************)
\* `return f(await p)` inside an async function: the promise it returns
ThenTry(p, F(_)) ==
  IF p.status # "fulfilled" THEN p
  ELSE IF IsThrow(F(p.value)) THEN Rejected([error |-> "TypeError"])
  ELSE Fulfilled(F(p.value))

\* `const v = await p; return k(v)` in a handler: no response while p is pending,
\* a failed request when p rejected, else what k answers
Await(p, K(_)) ==
  IF p = Pending THEN NoResult
  ELSE IF p.status = "rejected" THEN Failure(p.reason)
  ELSE K(p.value)

\* a response built from values that may have raised
OutputOrThrow(v) == IF IsThrow(v) THEN Failure([error |-> "TypeError"]) ELSE Output(v)

(***************************************************************************)
(* Leagues variant: getLeagueScores and its handlers (fetchedAt, a         *)
(* wall-clock stamp, is left out of every output)                          *)
(***************************************************************************)
LeagueGames(events) ==
  IF IsThrow(events) THEN Throw
  ELSE MapOrThrow([i \in 1..Len(Elems(events)) |-> parseGame(Elems(events)[i])])

LeagueRecord(leagueKey, day, games) ==
  IF IsThrow(day) \/ IsThrow(games) THEN Throw
  ELSE [league |-> LEAGUES[leagueKey].name, leagueKey |-> leagueKey,
        day |-> day, events |-> games.list]

LeagueData(leagueKey, data) ==
  LeagueRecord(leagueKey, OptGet(Get(data, "day"), "date"),
               LeagueGames(Or(Get(data, "events"), List(<<>>))))

\* getLeagueScores, once its upstream call was answered
getLeagueScores(leagueKey, ans) ==
  ThenTry(fetchJSON(ans), LAMBDA data : LeagueData(leagueKey, data))

IsLive(e) == e.status.state = Str("in")

\* `${e.away.score || 0} - ${e.home.score || 0}`, or 'TBD' without both sides
ScoreLine(e) ==
  IF Truthy(e.home) /\ Truthy(e.away)
  THEN [away |-> Or(e.away.score, Num(0)), home |-> Or(e.home.score, Num(0))]
  ELSE Str("TBD")

SampleOf(e) == [name |-> e.name, status |-> e.status.detail, score |-> ScoreLine(e)]

LeagueSummary(data) ==
  [league |-> data.league,
   totalGames |-> Len(data.events),
   liveGames |-> CountIf(data.events, IsLive),
   sample |-> [i \in 1..Len(Slice(data.events, SampleCap)) |-> SampleOf(data.events[i])]]

\* one branch of the overview's fan-out
overviewBranch(key, ans) == ThenTry(getLeagueScores(key, ans), LeagueSummary)

OverviewLeaguesOutput(results) ==
  Output([supportedLeagues |-> DOMAIN LEAGUES, summary |-> FulfilledValues(results)])

\* handler of the free overview (leagues variant), resumed with its branches so far
overviewLeaguesHandler(branches, ord) ==
  Await(PromiseAllSettled(branches, ord), OverviewLeaguesOutput)

\* handlers of nfl, nba, premier-league and league
leagueHandler(branches) == Await(branches[1], Output)

EventCount(d) == Len(d.events)
LiveCount(d) == CountIf(d.events, IsLive)

DashboardRecord(dashboard) ==
  [totalGames |-> SumOf(dashboard, EventCount),
   liveGames |-> SumOf(dashboard, LiveCount),
   leagues |-> dashboard]

DashboardOutput(results) == Output(DashboardRecord(FulfilledValues(results)))

\* handler of the multi-league dashboard
dashboardHandler(branches, ord) == Await(PromiseAllSettled(branches, ord), DashboardOutput)

(***************************************************************************)
(* Sports variant: handlers over fetchESPN, parseScoreboard, parseTeams    *)
(***************************************************************************)
\* the value of `try { return f(await p) } catch { return fallback }`
TryCatch(p, F(_), fallback) ==
  IF p.status # "fulfilled" THEN Fulfilled(fallback)
  ELSE IF IsThrow(F(p.value)) THEN Fulfilled(fallback)
  ELSE Fulfilled(F(p.value))

SportSummaryOf(name, games) ==
  IF IsThrow(games) THEN Throw
  ELSE [sport |-> name, gameCount |-> Len(games.list), games |-> Slice(games.list, SampleCap)]

SportSummary(name, data) == SportSummaryOf(name, parseScoreboard(data, name))

\* one branch of the overview's fan-out: try { ... } catch { zero games }
overviewSportsBranch(key, ans) ==
  TryCatch(fetchESPN(ans), LAMBDA data : SportSummary(SPORTS[key].name, data),
           [sport |-> SPORTS[key].name, gameCount |-> 0, games |-> <<>>])

GameCount(r) == r.gameCount

OverviewSportsOutput(results) ==
  Output([summary |-> results, totalGames |-> SumOf(results, GameCount)])

\* handler of the free overview (sports variant)
overviewSportsHandler(branches, ord) == Await(PromiseAll(branches, ord), OverviewSportsOutput)

ScoresRecord(name, games) ==
  IF IsThrow(games) THEN Throw
  ELSE [sport |-> name, games |-> games.list, gameCount |-> Len(games.list)]

ScoresOutput(name, data) == OutputOrThrow(ScoresRecord(name, parseScoreboard(data, name)))

\* handler of scores
scoresHandler(key, branches) ==
  Await(branches[1], LAMBDA data : ScoresOutput(SPORTS[key].name, data))

TeamsRecord(name, teams) ==
  IF IsThrow(teams) THEN Throw
  ELSE [sport |-> name, teams |-> teams.list, teamCount |-> Len(teams.list)]

TeamsOutput(name, data) == OutputOrThrow(TeamsRecord(name, parseTeams(data, name)))

\* handler of teams
teamsHandler(key, branches) ==
  Await(branches[1], LAMBDA data : TeamsOutput(SPORTS[key].name, data))

\* calendar dates of the process clock (the container runs in UTC, so the local
\* date that setDate moves is the date toISOString prints)
IsLeap(y) == (y % 4 = 0 /\ y % 100 # 0) \/ y % 400 = 0
DaysIn(y, m) ==
  IF m = 2 THEN (IF IsLeap(y) THEN 29 ELSE 28)
  ELSE IF m \in {4, 6, 9, 11} THEN 30 ELSE 31

\* d.setDate(n) for n >= 1: days past the end of the month roll into the next ones
RECURSIVE setDate(_, _)
setDate(date, n) ==
  IF n <= DaysIn(date.y, date.m) THEN [y |-> date.y, m |-> date.m, d |-> n]
  ELSE setDate([y |-> IF date.m = 12 THEN date.y + 1 ELSE date.y,
                m |-> IF date.m = 12 THEN 1 ELSE date.m + 1,
                d |-> 1],
               n - DaysIn(date.y, date.m))

\* d.toISOString().split('T')[0].replace(/-/g, ''): the digits yyyymmdd
isoDate(date) == date.y * 10000 + date.m * 100 + date.d

\* the schedule's loop over i = 0 .. days - 1
scheduleDates(now, days) == [k \in 1..days |-> isoDate(setDate(now, now.d + (k - 1)))]

\* the schedule's branch without its try / catch
scheduleBranchUncaught(key, ans) ==
  ThenTry(fetchESPN(ans), LAMBDA data : parseScoreboard(data, SPORTS[key].name))

\* one branch of the schedule's fan-out: try { ... } catch { [] }
scheduleBranch(key, ans) ==
  TryCatch(fetchESPN(ans), LAMBDA data : parseScoreboard(data, SPORTS[key].name), List(<<>>))

\* arr.flat() of an array of arrays
RECURSIVE Flat(_)
Flat(qq) == IF qq = <<>> THEN <<>> ELSE Elems(Head(qq)) \o Flat(Tail(qq))

ScheduleRecord(name, days, games) ==
  [sport |-> name, schedule |-> games, gameCount |-> Len(games), daysAhead |-> days]

\* handler of schedule
scheduleHandler(key, days, branches, ord) ==
  Await(PromiseAll(branches, ord),
        LAMBDA allGames : Output(ScheduleRecord(SPORTS[key].name, days, Flat(allGames))))

\* arr?.map(f), f given by its result on each element
OptMap(arr, F(_)) ==
  IF IsThrow(arr) THEN Throw
  ELSE IF Nullish(arr) THEN Undef
  ELSE MapOrThrow([i \in 1..Len(Elems(arr)) |-> F(Elems(arr)[i])])

\* arr?.slice(0, n)
OptSlice(arr, n) ==
  IF IsThrow(arr) THEN Throw
  ELSE IF Nullish(arr) THEN Undef
  ELSE List(Slice(Elems(arr), n))

\* an object literal: raises when the evaluation of a property raised
ObjOrThrow(o) == IF \E f \in DOMAIN o : IsThrow(o[f]) THEN Throw ELSE o

TeamName(c) == OptGet(Get(c, "team"), "displayName")
GameTeam(c) ==
  ObjOrThrow([name |-> TeamName(c), score |-> Get(c, "score"),
              record |-> OptGet(OptFirst(Get(c, "record")), "displayValue"),
              winner |-> Get(c, "winner")])
GameLeaders(pl) ==
  ObjOrThrow([team |-> TeamName(pl),
              leaders |-> OptSlice(OptGet(OptFirst(Get(pl, "statistics")), "leaders"),
                                   LeadersCap)])

GameRecord(name, gameId, comp, gameInfo, boxscore) ==
  ObjOrThrow([gameId |-> Num(gameId),
              sport |-> Str(name),
              name |-> OptMap(OptGet(comp, "competitors"), TeamName),
              status |-> OptGet(OptGet(OptGet(comp, "status"), "type"), "description"),
              venue |-> OptGet(OptGet(gameInfo, "venue"), "fullName"),
              attendance |-> OptGet(gameInfo, "attendance"),
              teams |-> OptMap(OptGet(comp, "competitors"), GameTeam),
              leaders |-> OptMap(OptGet(boxscore, "players"), GameLeaders)])

GameOutput(name, gameId, data) ==
  OutputOrThrow(GameRecord(name, gameId,
                           OptFirst(OptGet(Get(data, "header"), "competitions")),
                           Get(data, "gameInfo"), Get(data, "boxscore")))

\* handler of game
gameHandler(key, gameId, branches) ==
  Await(branches[1], LAMBDA data : GameOutput(SPORTS[key].name, gameId, data))

Article(a) ==
  ObjOrThrow([headline |-> Get(a, "headline"), description |-> Get(a, "description"),
              published |-> Get(a, "published"),
              link |-> OptGet(OptGet(Get(a, "links"), "web"), "href")])

\* fetchESPN(news) without its .catch
newsBranchUncaught(ans) == fetchESPN(ans)

\* fetchESPN(news).catch(() => ({ articles: [] }))
newsBranch(ans) ==
  IF fetchESPN(ans).status = "rejected" THEN Fulfilled([articles |-> List(<<>>)])
  ELSE fetchESPN(ans)

HasStatus(g, s) == g.status = Str(s)
\* the completed filter written as "not scheduled"
NotScheduled(g) == ~HasStatus(g, "Scheduled")
InProgress(g) == HasStatus(g, "In Progress")
Scheduled(g) == HasStatus(g, "Scheduled")
Completed(g) == HasStatus(g, "Final")

\* (news.articles || []).slice(0, 5).map(...)
Articles(found) ==
  IF IsThrow(found) THEN Throw
  ELSE MapOrThrow([i \in 1..Len(Slice(Elems(found), NewsCap)) |-> Article(Elems(found)[i])])

ReportRecord(name, games, teamList, articles) ==
  IF IsThrow(games) \/ IsThrow(teamList) \/ IsThrow(articles) THEN Throw
  ELSE [sport |-> name,
        liveGames |-> SelectSeq(games.list, InProgress),
        todaysGames |-> games.list,
        teams |-> Slice(teamList.list, TeamsCap),
        latestNews |-> articles.list,
        stats |-> [totalTeams |-> Len(teamList.list),
                   gamesInProgress |-> Len(SelectSeq(games.list, InProgress)),
                   gamesScheduled |-> Len(SelectSeq(games.list, Scheduled)),
                   gamesCompleted |-> Len(SelectSeq(games.list, Completed))]]

ReportOutput(name, got) ==
  OutputOrThrow(ReportRecord(name, parseScoreboard(got[1], name), parseTeams(got[2], name),
                             Articles(Or(Get(got[3], "articles"), List(<<>>)))))

\* handler of report
reportHandler(key, branches, ord) ==
  Await(PromiseAll(branches, ord), LAMBDA got : ReportOutput(SPORTS[key].name, got))

(***************************************************************************)
(* The handlers as a state machine: a request issues its upstream GETs,    *)
(* the answers arrive one at a time in any order, each settles its branch  *)
(* of the handler, and the handler resumes when its join lets it.          *)
(***************************************************************************)
LeagueEps == {"nfl", "nba", "premier-league", "league"}

\* the promise of the i-th branch of request r once its call was answered
Branch(r, i, ans) ==
  CASE r.ep \in LeagueEps -> getLeagueScores(r.league, ans)
    [] r.ep = "overview-leagues" -> overviewBranch(overviewLeagueKeys[i], ans)
    [] r.ep = "dashboard" -> getLeagueScores(r.leagues[i], ans)
    [] r.ep = "overview-sports" -> overviewSportsBranch(SportOrder[i], ans)
    [] r.ep \in {"scores", "teams", "game"} -> fetchESPN(ans)
    [] r.ep = "schedule" -> scheduleBranch(r.sport, ans)
    [] r.ep = "report" -> IF i = 3 THEN newsBranch(ans) ELSE fetchESPN(ans)

\* the continuation of the handler of request r, given its branches so far
Handle(r, branches, ord) ==
  CASE r.ep \in LeagueEps -> leagueHandler(branches)
    [] r.ep = "overview-leagues" -> overviewLeaguesHandler(branches, ord)
    [] r.ep = "dashboard" -> dashboardHandler(branches, ord)
    [] r.ep = "overview-sports" -> overviewSportsHandler(branches, ord)
    [] r.ep = "scores" -> scoresHandler(r.sport, branches)
    [] r.ep = "teams" -> teamsHandler(r.sport, branches)
    [] r.ep = "schedule" -> scheduleHandler(r.sport, r.days, branches, ord)
    [] r.ep = "game" -> gameHandler(r.sport, r.gameId, branches)
    [] r.ep = "report" -> reportHandler(r.sport, branches, ord)

AllAnswered == \A i \in 1..Len(net) : net[i] # Pending

\* a handler calls fetch on each of urls before its first await
Begin(r, urls) ==
  /\ req' = r
  /\ calls' = Fetch(urls, served)
  /\ net' = [i \in 1..Len(calls') |-> Pending]
  /\ branch' = [i \in 1..Len(calls') |-> Pending]
  /\ order' = <<>>
  /\ resp' = NoResult
  /\ pc' = "waiting"
  /\ UNCHANGED <<served, event, parsed>>

LeagueScoreboard(key) == Url(LEAGUES[key].path, "scoreboard", 0)

Nfl ==
  /\ pc = "idle"
  /\ Begin([ep |-> "nfl", league |-> "nfl"], <<LeagueScoreboard("nfl")>>)

Nba ==
  /\ pc = "idle"
  /\ Begin([ep |-> "nba", league |-> "nba"], <<LeagueScoreboard("nba")>>)

PremierLeague ==
  /\ pc = "idle"
  /\ Begin([ep |-> "premier-league", league |-> "premier-league"],
           <<LeagueScoreboard("premier-league")>>)

League(key) ==
  /\ pc = "idle"
  /\ Begin([ep |-> "league", league |-> key], <<LeagueScoreboard(key)>>)

OverviewLeagues ==
  /\ pc = "idle"
  /\ Begin([ep |-> "overview-leagues"],
           [i \in 1..Len(overviewLeagueKeys) |-> LeagueScoreboard(overviewLeagueKeys[i])])

Dashboard(leagues) ==
  /\ pc = "idle"
  /\ Len(leagues) >= 1
  /\ Len(leagues) <= DashboardMax
  /\ Begin([ep |-> "dashboard", leagues |-> leagues],
           [i \in 1..Len(leagues) |-> LeagueScoreboard(leagues[i])])

OverviewSports ==
  /\ pc = "idle"
  /\ Begin([ep |-> "overview-sports"],
           [i \in 1..Len(SportOrder) |-> Url(SPORTS[SportOrder[i]].path, "scoreboard", 0)])

Scores(key) ==
  /\ pc = "idle"
  /\ Begin([ep |-> "scores", sport |-> key], <<Url(SPORTS[key].path, "scoreboard", 0)>>)

Teams(key) ==
  /\ pc = "idle"
  /\ Begin([ep |-> "teams", sport |-> key], <<Url(SPORTS[key].path, "teams", 0)>>)

Schedule(key, days, now) ==
  /\ pc = "idle"
  /\ days >= 1
  /\ days <= DaysMax
  /\ Begin([ep |-> "schedule", sport |-> key, days |-> days, now |-> now],
           [i \in 1..days |-> Url(SPORTS[key].path, "scoreboard", scheduleDates(now, days)[i])])

Game(key, gameId) ==
  /\ pc = "idle"
  /\ Begin([ep |-> "game", sport |-> key, gameId |-> gameId],
           <<Url(SPORTS[key].path, "summary", gameId)>>)

Report(key) ==
  /\ pc = "idle"
  /\ Begin([ep |-> "report", sport |-> key],
           <<Url(SPORTS[key].path, "scoreboard", 0),
             Url(SPORTS[key].path, "teams", 0),
             Url(SPORTS[key].path, "news", 0)>>)

\* whether the upstream answered with a successful response carrying JSON
Succeeded(ans) == ans # Pending /\ ans.kind = "http" /\ Ok(ans) /\ ans.body # Unparsable

\* the URLs of the request's calls that were answered successfully
FetchedUrls(urls, answers) == { urls[j] : j \in {k \in 1..Len(answers) : Succeeded(answers[k])} }

\* the upstream answers call i with ans: the branch settles and the handler resumes
\* if its join is complete.  With observe set, the URLs this request fetched are
\* remembered for the next one.
Settle(i, ans, observe) ==
  /\ pc \in {"waiting", "done"}
  /\ i \in 1..Len(net)
  /\ net[i] = Pending
  /\ net' = [net EXCEPT ![i] = ans]
  /\ branch' = [branch EXCEPT ![i] = Branch(req, i, ans)]
  /\ order' = Append(order, i)
  /\ IF pc = "waiting" /\ Handle(req, branch', order') # NoResult
     THEN /\ resp' = Handle(req, branch', order')
          /\ pc' = "done"
          /\ served' = IF observe THEN FetchedUrls(calls, net') ELSE served
     ELSE UNCHANGED <<resp, pc, served>>
  /\ UNCHANGED <<req, calls, event, parsed>>

\* the response has been produced and every call answered: the request is over
Deliver ==
  /\ pc = "done"
  /\ AllAnswered
  /\ pc' = "idle"
  /\ req' = NoResult
  /\ calls' = <<>>
  /\ net' = <<>>
  /\ branch' = <<>>
  /\ order' = <<>>
  /\ resp' = NoResult
  /\ UNCHANGED <<served, event, parsed>>

Init ==
  /\ pc = "idle"
  /\ req = NoResult
  /\ calls = <<>>
  /\ net = <<>>
  /\ branch = <<>>
  /\ order = <<>>
  /\ served = {}
  /\ resp = NoResult
  /\ event = Undef
  /\ parsed = NoResult

(***************************************************************************)
(* What the upstream may answer, and the requests that are tried           *)
(***************************************************************************)
MaxFanout == 2
MaxGames == 2
MaxTeams == 11
MaxNews == 6
MaxDays == 3

\* sequences over S of length lo .. hi
SeqsOf(S, lo, hi) == UNION { [1..n -> S] : n \in lo..hi }

\* the transport fails, or the upstream answers 500 with an error document
Failures == { NetError, Http(500, [code |-> Num(500), message |-> Str("Internal Server Error")]) }

\* a 404 whose body is not JSON
NotFound == Http(404, Unparsable)

Side2(homeAway, name, abbr, score) ==
  [homeAway |-> Str(homeAway), score |-> Str(score),
   team |-> [displayName |-> Str(name), abbreviation |-> Str(abbr)]]

\* an event of the leagues variant: status under the competition
LeagueEvent(id, state) ==
  [id |-> Num(id), name |-> Str("Away at Home"), shortName |-> Str("AWY @ HOM"),
   date |-> Num(id),
   competitions |-> List(<<
     [status |-> [type |-> [state |-> Str(state), detail |-> Str(state)],
                  displayClock |-> Str("0:00"), period |-> Num(1)],
      competitors |-> List(<<Side2("home", "Home", "HOM", "7"), Side2("away", "Away", "AWY", "3")>>),
      venue |-> [fullName |-> Str("Stadium")]]>>)]

\* an event with none of the optional parts
SparseEvent(id) == [id |-> Num(id), date |-> Num(id)]

LeagueBoards ==
  { EmptyObj,
    [events |-> List(<<>>)],
    [day |-> [date |-> Str("2026-01-31")], events |-> List(<<LeagueEvent(1, "in")>>)],
    [events |-> List(<<LeagueEvent(2, "in"), LeagueEvent(3, "pre"), LeagueEvent(4, "pre")>>)],
    [events |-> List(<<LeagueEvent(5, "post"), SparseEvent(6)>>)] }

LeagueAnswers ==
  Failures \cup {Http(200, Unparsable)} \cup { Http(200, b) : b \in LeagueBoards }

\* an event of the sports variant: status on the event; an empty description
\* stands for an event without status
SportEvent(id, description, date) ==
  Put([id |-> Num(id), name |-> Str("Away at Home"), date |-> Num(date),
       competitions |-> List(<<
         [competitors |-> List(<<Side2("home", "Home", "HOM", "7"),
                                 Side2("away", "Away", "AWY", "3")>>),
          venue |-> [fullName |-> Str("Arena")]]>>)],
      "status",
      IF description = "" THEN Undef ELSE [type |-> [description |-> Str(description)]])

SportBoards ==
  { EmptyObj,
    [events |-> List(<<>>)],
    [events |-> List(<<SportEvent(1, "In Progress", 1)>>)],
    [events |-> List(<<SportEvent(2, "Final", 2), SportEvent(3, "In Progress", 3),
                       SportEvent(4, "Scheduled", 4)>>)] }

SportAnswers == Failures \cup { Http(200, b) : b \in SportBoards }

\* each of the overview's five calls fails, or succeeds with fewer or with more games
\* than the sample holds
OverviewSportAnswers ==
  { Http(500, [code |-> Num(500)]),
    Http(200, [events |-> List(<<SportEvent(1, "In Progress", 1)>>)]),
    Http(200, [events |-> List(<<SportEvent(2, "Final", 2), SportEvent(3, "In Progress", 3),
                                 SportEvent(4, "Scheduled", 4)>>)]) }

\* the report's scoreboard: every list of up to MaxGames games over these statuses
StatusChoices == {"In Progress", "Scheduled", "Final", ""}
ReportBoards ==
  { [events |-> List([i \in 1..Len(q) |-> SportEvent(i, q[i], i)])] :
      q \in SeqsOf(StatusChoices, 0, MaxGames) }
ReportBoardAnswers == Failures \cup { Http(200, b) : b \in ReportBoards }

TeamsBody(n) ==
  [sports |-> List(<<[leagues |-> List(<<
     [teams |-> List([i \in 1..n |->
        [team |-> [id |-> Num(i), displayName |-> Str("Team"), abbreviation |-> Str("TM")]]])]>>)]>>)]
TeamsAnswers ==
  Failures \cup {Http(200, EmptyObj)} \cup { Http(200, TeamsBody(n)) : n \in 0..MaxTeams }

NewsBody(n) ==
  [articles |-> List([i \in 1..n |->
     [headline |-> Num(i), links |-> [web |-> [href |-> Str("https://espn.com/story")]]]])]
NewsAnswers ==
  Failures \cup {Http(200, EmptyObj)} \cup { Http(200, NewsBody(n)) : n \in 0..MaxNews }

SummaryBodies ==
  { EmptyObj,
    [header |-> [competitions |-> List(<<
        [status |-> [type |-> [description |-> Str("Final")]],
         competitors |-> List(<<
           [team |-> [displayName |-> Str("Home")], score |-> Str("7"), winner |-> Bool(TRUE),
            record |-> List(<<[displayValue |-> Str("10-2")]>>)],
           [team |-> [displayName |-> Str("Away")], score |-> Str("3")]>>)]>>)],
     gameInfo |-> [venue |-> [fullName |-> Str("Arena")], attendance |-> Num(18000)],
     boxscore |-> [players |-> List(<<
        [team |-> [displayName |-> Str("Home")],
         statistics |-> List(<<[leaders |-> List(<<Num(1), Num(2), Num(3), Num(4)>>)]>>)],
        [team |-> [displayName |-> Str("Away")]]>>)]] }
SummaryAnswers == Failures \cup { Http(200, b) : b \in SummaryBodies }

\* a day's scoreboard: games at hours of that day, in either order
DayBoards(date) ==
  { [events |-> List(<<>>)],
    [events |-> List(<<SportEvent(1, "Scheduled", date * 100 + 19)>>)],
    [events |-> List(<<SportEvent(1, "Scheduled", date * 100 + 19),
                       SportEvent(2, "Scheduled", date * 100 + 21)>>)],
    [events |-> List(<<SportEvent(2, "Scheduled", date * 100 + 21),
                       SportEvent(1, "Scheduled", date * 100 + 19)>>)] }
DayAnswers(date) ==
  {Http(500, [code |-> Num(500)])} \cup { Http(200, b) : b \in DayBoards(date) }

\* the answers the upstream may give to the GET of url made for request r
Answers(r, url) ==
  CASE url.resource = "teams" -> TeamsAnswers
    [] url.resource = "news" -> NewsAnswers
    [] url.resource = "summary" -> SummaryAnswers
    [] url.resource = "scoreboard" /\ r.ep \in LeagueEps -> LeagueAnswers \cup {NotFound}
    [] url.resource = "scoreboard" /\ r.ep \in {"overview-leagues", "dashboard"} -> LeagueAnswers
    [] url.resource = "scoreboard" /\ r.ep = "scores" -> SportAnswers \cup {NotFound}
    [] url.resource = "scoreboard" /\ r.ep = "overview-sports" -> OverviewSportAnswers
    [] url.resource = "scoreboard" /\ r.ep = "report" -> ReportBoardAnswers
    [] url.resource = "scoreboard" /\ r.ep = "schedule" -> DayAnswers(url.query)

\* the leagues a dashboard request names, duplicates allowed
DashboardInputs ==
  SeqsOf({"nfl", "nba", "la-liga"}, 1, IF MaxFanout < DashboardMax THEN MaxFanout ELSE DashboardMax)

\* the process clock's date when a schedule request arrives
Todays ==
  { [y |-> 2026, m |-> 1, d |-> 30], [y |-> 2026, m |-> 2, d |-> 27],
    [y |-> 2026, m |-> 12, d |-> 31] }
DaysInputs == 1..(IF MaxDays < DaysMax THEN MaxDays ELSE DaysMax)

GameIds == {401, 402}

\* the sports a report or a schedule is asked for
ReportSports == {"nba", "mls"}
ScheduleSports == {"nfl", "nhl"}

AnySettle ==
  \E i \in 1..Len(net) : \E ans \in Answers(req, calls[i]) : Settle(i, ans, FALSE)

\* the fan-out entrypoints over getLeagueScores and over the sports
NextFanout ==
  \/ \E leagues \in DashboardInputs : Dashboard(leagues)
  \/ OverviewSports
  \/ AnySettle
  \/ Deliver

SpecFanout == Init /\ [][NextFanout]_vars

\* the entrypoints that make a single upstream call
NextSingle ==
  \/ Nfl
  \/ Nba
  \/ PremierLeague
  \/ \E key \in DOMAIN LEAGUES : League(key)
  \/ \E key \in DOMAIN SPORTS : Scores(key)
  \/ \E key \in DOMAIN SPORTS : Teams(key)
  \/ \E key \in DOMAIN SPORTS : \E id \in GameIds : Game(key, id)
  \/ AnySettle
  \/ Deliver

SpecSingle == Init /\ [][NextSingle]_vars

\* the report and the two overviews
NextReport ==
  \/ \E key \in ReportSports : Report(key)
  \/ OverviewLeagues
  \/ OverviewSports
  \/ AnySettle
  \/ Deliver

SpecReport == Init /\ [][NextReport]_vars

NextSchedule ==
  \/ \E key \in ScheduleSports : \E days \in DaysInputs : \E now \in Todays :
       Schedule(key, days, now)
  \/ AnySettle
  \/ Deliver

SpecSchedule == Init /\ [][NextSchedule]_vars

\* every entrypoint, each call failing or succeeding, the URLs a request fetched
\* remembered for the next one
CallOutcomes == { Http(500, [code |-> Num(500)]), Http(200, EmptyObj) }

ObservedSettle ==
  \E i \in 1..Len(net) : \E ans \in CallOutcomes : Settle(i, ans, TRUE)

NextCalls ==
  \/ Nfl
  \/ Nba
  \/ PremierLeague
  \/ \E key \in {"nfl", "mlb"} : League(key)
  \/ OverviewLeagues
  \/ \E leagues \in SeqsOf({"nfl", "nba"}, 1, MaxFanout) : Dashboard(leagues)
  \/ OverviewSports
  \/ Scores("nfl")
  \/ Teams("nfl")
  \/ \E days \in DaysInputs : Schedule("nfl", days, [y |-> 2026, m |-> 12, d |-> 31])
  \/ Game("nfl", 401)
  \/ Report("nfl")
  \/ ObservedSettle
  \/ Deliver

SpecCalls == Init /\ [][NextCalls]_vars

(***************************************************************************)
(* Upstream events handed to the normalisers: every combination of the     *)
(* optional parts present or absent.                                       *)
(***************************************************************************)
TeamVals ==
  { Undef, EmptyObj,
    [displayName |-> Str("Boston Celtics"), abbreviation |-> Str("BOS"), logo |-> Str("bos.png")],
    [name |-> Str("Celtics")] }

CompetitorVals ==
  { Put(Put(Put(Put(EmptyObj, "homeAway", h), "team", t), "score", sc), "winner", w) :
      h \in {Undef, Str("home"), Str("away")}, t \in TeamVals,
      sc \in {Undef, Str("101")}, w \in {Undef, Bool(TRUE)} }

CompetitorLists ==
  {Undef, List(<<>>)}
    \cup { List(<<c>>) : c \in CompetitorVals }
    \cup { List(<<a, b>>) : a \in {c \in CompetitorVals : StrictEqStr(Get(c, "homeAway"), "away")},
                            b \in {c \in CompetitorVals : StrictEqStr(Get(c, "homeAway"), "home")} }

StatusVals ==
  { Undef, EmptyObj, [type |-> EmptyObj],
    [type |-> [state |-> Str("in"), detail |-> Str("Q3 4:12")],
     displayClock |-> Str("4:12"), period |-> Num(3)],
    [type |-> [description |-> Str("Final")]] }

VenueVals == { Undef, EmptyObj, [fullName |-> Str("TD Garden")] }

CompetitionLists ==
  {Undef, List(<<>>)}
    \cup { List(<<Put(Put(Put(EmptyObj, "status", st), "competitors", cs), "venue", v)>>) :
             st \in StatusVals, cs \in CompetitorLists, v \in VenueVals }

EventStatusVals ==
  { Undef, EmptyObj, [type |-> EmptyObj], [type |-> [description |-> Str("In Progress")]] }

EventDomain ==
  { Put(Put(Put(Put([id |-> Str("401"), date |-> Num(1)],
        "competitions", cl), "status", es), "name", n), "shortName", sn) :
      cl \in CompetitionLists, es \in EventStatusVals,
      n \in {Undef, Str("Boston Celtics at Miami Heat")}, sn \in {Undef, Str("BOS @ MIA")} }

\* the parsers applied to one upstream event
Normalize ==
  /\ parsed = NoResult
  /\ parsed' = [game |-> parseGame(event),
                board |-> parseScoreboard([events |-> List(<<event>>)], "NBA")]
  /\ UNCHANGED <<pc, req, calls, net, branch, order, served, resp, event>>

InitParse ==
  /\ event \in EventDomain
  /\ parsed = NoResult
  /\ pc = "idle"
  /\ req = NoResult
  /\ calls = <<>>
  /\ net = <<>>
  /\ branch = <<>>
  /\ order = <<>>
  /\ served = {}
  /\ resp = NoResult

NextParse == Normalize

SpecParse == InitParse /\ [][NextParse]_vars

\* the parts of an upstream event, read off its structure
HasComp(e) ==
  "competitions" \in DOMAIN e /\ IsList(e.competitions) /\ Len(e.competitions.list) > 0
CompOf(e) == e.competitions.list[1]
HasCompetitors(e) == HasComp(e) /\ "competitors" \in DOMAIN CompOf(e)
CompetitorsOf(e) == IF HasCompetitors(e) THEN CompOf(e).competitors.list ELSE <<>>
HasState(e) ==
  /\ HasComp(e)
  /\ "status" \in DOMAIN CompOf(e)
  /\ "type" \in DOMAIN CompOf(e).status
  /\ "state" \in DOMAIN CompOf(e).status.type
HasDescription(e) ==
  /\ "status" \in DOMAIN e
  /\ "type" \in DOMAIN e.status
  /\ "description" \in DOMAIN e.status.type
HasVenueName(e) ==
  HasComp(e) /\ "venue" \in DOMAIN CompOf(e) /\ "fullName" \in DOMAIN CompOf(e).venue
HasSide(e, s) ==
  \E i \in 1..Len(CompetitorsOf(e)) :
    "homeAway" \in DOMAIN CompetitorsOf(e)[i] /\ CompetitorsOf(e)[i].homeAway = Str(s)

\* C4: for every upstream event, whatever optional parts are missing, parseGame and
\* parseScoreboard return a record without throwing, and a missing part shows as a
\* default: state 'unknown', status 'Unknown', home / away null, an empty teams list,
\* an undefined venue, one normalised team per competitor otherwise.
C4_NormalizeTotal ==
  parsed # NoResult =>
    LET g == parsed.game
        b == parsed.board
    IN /\ ~IsThrow(g)
       /\ ~IsThrow(b)
       /\ Len(b.list) = 1
       /\ (~HasState(event) => g.status.state = Str("unknown"))
       /\ (HasState(event) => g.status.state = CompOf(event).status.type.state)
       /\ (~HasDescription(event) => b.list[1].status = Str("Unknown"))
       /\ (HasSide(event, "home") <=> g.home # Null)
       /\ (HasSide(event, "away") <=> g.away # Null)
       /\ (~HasVenueName(event) => IsUndef(g.venue) /\ IsUndef(b.list[1].venue))
       /\ Len(b.list[1].teams.list) = Len(CompetitorsOf(event))
       /\ \A i \in 1..Len(CompetitorsOf(event)) :
            "team" \notin DOMAIN CompetitorsOf(event)[i] => IsUndef(b.list[1].teams.list[i].name)

\* C4 witness: an event with neither a competitions list nor a status has been
\* normalised: state 'unknown', no home side
C4_Witness ==
  /\ parsed # NoResult
  /\ ~IsThrow(parsed.game)
  /\ ~HasComp(event)
  /\ "status" \notin DOMAIN event
  /\ parsed.game.home = Null
  /\ parsed.game.status.state = Str("unknown")

(***************************************************************************)
(* Properties of the handlers.  What the upstream sent is read off the raw *)
(* answers in net, not off the handlers' intermediate values.              *)
(***************************************************************************)
RawEvents(ans) ==
  IF Succeeded(ans) /\ "events" \in DOMAIN ans.body THEN ans.body.events.list ELSE <<>>
RawIds(ans) == [j \in 1..Len(RawEvents(ans)) |-> RawEvents(ans)[j].id]
Ids(games) == [j \in 1..Len(games) |-> games[j].id]
\* the calls answered successfully, in the order they were issued
OkCalls == SelectSeq([i \in 1..Len(net) |-> i], LAMBDA i : Succeeded(net[i]))
\* the transport failed or the HTTP status is outside 200..299
UpstreamFailed(ans) == ans.kind = "neterror" \/ ans.status < 200 \/ ans.status > 299
IsRawLive(ev) ==
  /\ "competitions" \in DOMAIN ev
  /\ ev.competitions.list[1].status.type.state = Str("in")
RawLive(ans) == Cardinality({j \in 1..Len(RawEvents(ans)) : IsRawLive(RawEvents(ans)[j])})

\* C1: a dashboard request over N leagues succeeds whatever calls fail; its response
\* lists exactly the leagues whose call succeeded, each with exactly the events the
\* upstream sent for it, nothing of a failed league, and totalGames is the sum of the
\* successful leagues' event counts.
C1_DashboardIsolatesFailures ==
  /\ (pc = "waiting" /\ req.ep = "dashboard") => ~AllAnswered
  /\ (pc = "done" /\ req.ep = "dashboard") =>
       /\ resp.ok
       /\ Len(resp.output.leagues) = Len(OkCalls)
       /\ \A k \in 1..Len(OkCalls) :
            /\ resp.output.leagues[k].leagueKey = req.leagues[OkCalls[k]]
            /\ Ids(resp.output.leagues[k].events) = RawIds(net[OkCalls[k]])
       /\ resp.output.totalGames =
            SumSeq([k \in 1..Len(OkCalls) |-> Len(RawEvents(net[OkCalls[k]]))])

\* C1 witness: two leagues asked, the first answered HTTP 500, the second with three
\* events: the response holds one league and exactly three events
C1_Witness ==
  /\ pc = "done"
  /\ req.ep = "dashboard"
  /\ Len(req.leagues) = 2
  /\ net[1].kind = "http"
  /\ net[1].status = 500
  /\ Succeeded(net[2])
  /\ Len(RawEvents(net[2])) = 3
  /\ resp.ok
  /\ resp.output.totalGames = 3
  /\ Len(resp.output.leagues) = 1
  /\ Len(resp.output.leagues[1].events) = 3

SingleEps == LeagueEps \cup {"scores", "teams", "game"}

\* C2: in nfl, nba, premier-league, league, scores, teams and game, once the upstream
\* call has failed (transport error or a status outside 200..299) the handler has
\* ended with an error, never with an output envelope.
C2_SingleCallSurfacesError ==
  (pc # "idle" /\ req.ep \in SingleEps /\ net[1] # Pending /\ UpstreamFailed(net[1])) =>
    /\ pc = "done"
    /\ ~resp.ok

\* C2 witness: a scores request whose upstream call was answered HTTP 500 has failed
C2_Witness ==
  /\ pc = "done"
  /\ req.ep = "scores"
  /\ net[1].kind = "http"
  /\ net[1].status = 500
  /\ ~resp.ok
  /\ resp.error.code = 500

\* the number of upstream resources a request asks for
AskedCount(r) ==
  CASE r.ep \in SingleEps -> 1
    [] r.ep = "overview-leagues" -> 3
    [] r.ep = "dashboard" -> Len(r.leagues)
    [] r.ep = "overview-sports" -> 5
    [] r.ep = "schedule" -> r.days
    [] r.ep = "report" -> 3

\* the upstream path the i-th of them lives under
AskedPath(r, i) ==
  CASE r.ep \in LeagueEps -> LEAGUES[r.league].path
    [] r.ep = "overview-leagues" -> LEAGUES[<<"nfl", "nba", "premier-league">>[i]].path
    [] r.ep = "dashboard" -> LEAGUES[r.leagues[i]].path
    [] r.ep = "overview-sports" -> SPORTS[<<"nba", "nfl", "mlb", "nhl", "mls">>[i]].path
    [] OTHER -> SPORTS[r.sport].path

\* C3: at every moment of a request, whatever calls have failed and whatever an earlier
\* request fetched, the calls issued are exactly one per league / date / resource asked
\* for: none is repeated after a failure, none is skipped because an earlier request
\* already fetched its URL.
C3_OneLiveCallEach ==
  pc # "idle" =>
    /\ Len(calls) = AskedCount(req)
    /\ Len(net) = Len(calls)
    /\ \A i \in 1..Len(calls) : calls[i].path = AskedPath(req, i)
    /\ \A i \in 1..Len(calls) : \A j \in 1..Len(calls) :
         (i # j /\ req.ep \in {"schedule", "report"}) => calls[i] # calls[j]

\* C3 witness: a request is waiting on a fresh call for a URL that the previous
\* request fetched successfully, while another of its calls has already failed
C3_Witness ==
  /\ pc = "waiting"
  /\ \E i \in 1..Len(calls) : calls[i] \in served /\ net[i] = Pending
  /\ \E j \in 1..Len(calls) : net[j] # Pending /\ UpstreamFailed(net[j])

StatusIdx(games, s) == {j \in 1..Len(games) : games[j].status = Str(s)}
RawTeams(ans) ==
  IF Succeeded(ans) /\ "sports" \in DOMAIN ans.body
  THEN Len(ans.body.sports.list[1].leagues.list[1].teams.list)
  ELSE 0
RawNews(ans) ==
  IF Succeeded(ans) /\ "articles" \in DOMAIN ans.body THEN Len(ans.body.articles.list) ELSE 0

\* C5: in a report, every game of liveGames is a game of todaysGames (liveGames is the
\* sub-list of the in-progress ones), the in-progress, scheduled and completed games
\* are pairwise disjoint, each stats counter counts its own status, and the three
\* counters together never exceed the number of games in todaysGames.
C5_ReportFiltersPartition ==
  (pc = "done" /\ req.ep = "report" /\ resp.ok) =>
    LET o == resp.output
        live == StatusIdx(o.todaysGames, "In Progress")
        sched == StatusIdx(o.todaysGames, "Scheduled")
        final == StatusIdx(o.todaysGames, "Final")
    IN /\ \A i \in 1..Len(o.liveGames) :
            \E j \in 1..Len(o.todaysGames) : o.liveGames[i] = o.todaysGames[j]
       /\ o.liveGames = SelectSeq(o.todaysGames, LAMBDA g : g.status = Str("In Progress"))
       /\ live \cap sched = {}
       /\ live \cap final = {}
       /\ sched \cap final = {}
       /\ o.stats.gamesInProgress = Cardinality(live)
       /\ o.stats.gamesScheduled = Cardinality(sched)
       /\ o.stats.gamesCompleted = Cardinality(final)
       /\ o.stats.gamesInProgress + o.stats.gamesScheduled + o.stats.gamesCompleted
            <= Len(o.todaysGames)

\* C5 witness: a report over two games, one in progress and one under none of the
\* three statuses, so the counters add up to less than the number of games
C5_Witness ==
  /\ pc = "done"
  /\ req.ep = "report"
  /\ resp.ok
  /\ Len(resp.output.todaysGames) = 2
  /\ Len(resp.output.liveGames) = 1
  /\ resp.output.stats.gamesInProgress = 1
  /\ resp.output.stats.gamesScheduled = 0
  /\ resp.output.stats.gamesCompleted = 0

\* C6: the dates of the games of a returned schedule are in non-decreasing order.
C6_ScheduleDatesSorted ==
  (pc = "done" /\ req.ep = "schedule" /\ resp.ok) =>
    \A i \in 1..Len(resp.output.schedule) : \A j \in 1..Len(resp.output.schedule) :
      i < j => resp.output.schedule[i].date.num <= resp.output.schedule[j].date.num

\* C7: each league's sample in the leagues overview and each sport's games list in the
\* sports overview holds at most 2 events, a report's teams list at most 10 teams and
\* its latestNews at most 5 articles, while totalGames / gameCount / stats.totalTeams
\* count everything the upstream sent.
C7_CapsHold ==
  /\ (pc = "done" /\ req.ep = "overview-leagues") =>
       /\ resp.ok
       /\ Len(resp.output.summary) = Len(OkCalls)
       /\ \A k \in 1..Len(OkCalls) :
            /\ Len(resp.output.summary[k].sample) <= 2
            /\ resp.output.summary[k].totalGames = Len(RawEvents(net[OkCalls[k]]))
            /\ (resp.output.summary[k].totalGames >= 2 =>
                  Len(resp.output.summary[k].sample) = 2)
  /\ (pc = "done" /\ req.ep = "overview-sports") =>
       /\ resp.ok
       /\ \A i \in 1..Len(resp.output.summary) :
            /\ Len(resp.output.summary[i].games) <= 2
            /\ resp.output.summary[i].gameCount = Len(RawEvents(net[i]))
  /\ (pc = "done" /\ req.ep = "report" /\ resp.ok) =>
       /\ Len(resp.output.teams) <= 10
       /\ Len(resp.output.latestNews) <= 5
       /\ resp.output.stats.totalTeams = RawTeams(net[2])
       /\ (RawTeams(net[2]) >= 10 => Len(resp.output.teams) = 10)
       /\ (RawNews(net[3]) >= 5 => Len(resp.output.latestNews) = 5)

\* C7 witness: the upstream sent 11 teams and 6 articles; the report lists 10 and 5
\* and counts 11 teams
C7_Witness ==
  /\ pc = "done"
  /\ req.ep = "report"
  /\ resp.ok
  /\ RawTeams(net[2]) = 11
  /\ RawNews(net[3]) = 6
  /\ Len(resp.output.teams) = 10
  /\ Len(resp.output.latestNews) = 5
  /\ resp.output.stats.totalTeams = 11

FanoutEps == {"dashboard", "overview-sports"}

\* C8: the response of a fan-out (dashboard, sports overview) is produced only once
\* every call has settled and is what the handler answers when the calls complete in
\* the order they were issued, whatever the order in which they did complete: the dashboard lists the successful
\* leagues in the order their keys were requested with liveGames the number of live
\* events among them, the overview lists the five sports in their fixed order with
\* totalGames the number of games of the sports that answered.
C8_FanoutOrderIndependent ==
  /\ (pc = "waiting" /\ req.ep \in FanoutEps) => (resp = NoResult /\ Len(order) < Len(calls))
  /\ (pc = "done" /\ req.ep \in FanoutEps) =>
       /\ Len(order) = Len(calls)
       /\ resp = Handle(req, branch, [i \in 1..Len(net) |-> i])
  /\ (pc = "done" /\ req.ep = "dashboard") =>
       /\ [k \in 1..Len(resp.output.leagues) |-> resp.output.leagues[k].leagueKey]
            = [k \in 1..Len(OkCalls) |-> req.leagues[OkCalls[k]]]
       /\ resp.output.liveGames = SumSeq([k \in 1..Len(OkCalls) |-> RawLive(net[OkCalls[k]])])
  /\ (pc = "done" /\ req.ep = "overview-sports") =>
       /\ [i \in 1..Len(resp.output.summary) |-> resp.output.summary[i].sport]
            = <<"NBA", "NFL", "MLB", "NHL", "MLS">>
       /\ resp.output.totalGames =
            SumSeq([i \in 1..Len(net) |-> Len(RawEvents(net[i]))])

\* C8 witness: a dashboard over two different leagues whose second call completed
\* first; both succeeded and the response lists them in the requested order
C8_Witness ==
  /\ pc = "done"
  /\ req.ep = "dashboard"
  /\ order = <<2, 1>>
  /\ Len(req.leagues) = 2
  /\ req.leagues[1] # req.leagues[2]
  /\ Len(RawEvents(net[1])) = 1
  /\ Len(RawEvents(net[2])) = 3
  /\ resp.ok
  /\ resp.output.leagues[1].leagueKey = req.leagues[1]
  /\ resp.output.leagues[2].leagueKey = req.leagues[2]
  /\ resp.output.totalGames = 4
  /\ resp.output.liveGames = 2

Answered(i) == net[i] # Pending
FailedCall(i) == Answered(i) /\ UpstreamFailed(net[i])

\* C9: in a report (calls: 1 scoreboard, 2 teams, 3 news) a failed scoreboard call or
\* a failed teams call has failed the request, whatever the other calls did; a failed
\* news call next to a successful scoreboard and teams call leaves a successful report
\* with an empty latestNews, the scoreboard's games and the teams' count.
C9_ReportAsymmetry ==
  (pc # "idle" /\ req.ep = "report") =>
    /\ (FailedCall(1) \/ FailedCall(2)) => (pc = "done" /\ ~resp.ok)
    /\ (Succeeded(net[1]) /\ Succeeded(net[2]) /\ FailedCall(3)) =>
         /\ pc = "done"
         /\ resp.ok
         /\ resp.output.latestNews = <<>>
         /\ Ids(resp.output.todaysGames) = RawIds(net[1])
         /\ resp.output.stats.totalTeams = RawTeams(net[2])

\* C9 witness: the news call failed, the other two succeeded with games and teams;
\* the report succeeded without news
C9_Witness ==
  /\ pc = "done"
  /\ req.ep = "report"
  /\ FailedCall(3)
  /\ Succeeded(net[1])
  /\ Succeeded(net[2])
  /\ resp.ok
  /\ resp.output.latestNews = <<>>
  /\ Len(resp.output.todaysGames) = 2
  /\ resp.output.stats.totalTeams = 3

\* the calendar day after yyyymmdd
DayAfter(n) ==
  IF n % 100 < DaysIn(n \div 10000, (n \div 100) % 100) THEN n + 1
  ELSE IF (n \div 100) % 100 < 12 THEN (n \div 100 + 1) * 100 + 1
  ELSE (n \div 10000 + 1) * 10000 + 101

\* the games of the successful dates, in the order the dates were requested
RECURSIVE DayIdsFrom(_)
DayIdsFrom(i) == IF i > Len(net) THEN <<>> ELSE RawIds(net[i]) \o DayIdsFrom(i + 1)

\* C10: a schedule request with days = d issues exactly d scoreboard calls, for today
\* and the d - 1 calendar days after it; it answers once all of them have settled,
\* always successfully, with the games of the successful dates concatenated in the
\* order of the dates (nothing for a failed date, an empty schedule when all failed)
\* and gameCount the length of that list.
C10_ScheduleFanout ==
  (pc # "idle" /\ req.ep = "schedule") =>
    /\ Len(calls) = req.days
    /\ \A i \in 1..Len(calls) : calls[i].resource = "scoreboard"
    /\ calls[1].query = req.now.y * 10000 + req.now.m * 100 + req.now.d
    /\ \A i \in 1..(Len(calls) - 1) : calls[i + 1].query = DayAfter(calls[i].query)
    /\ (pc = "waiting" <=> ~AllAnswered)
    /\ pc = "done" =>
         /\ resp.ok
         /\ Ids(resp.output.schedule) = DayIdsFrom(1)
         /\ resp.output.gameCount = Len(resp.output.schedule)
         /\ ((\A i \in 1..Len(net) : UpstreamFailed(net[i])) => resp.output.schedule = <<>>)

\* C10 witness: two dates asked across the end of a month, the first date's call
\* failed and the second answered two games: the schedule holds those two games
C10_Witness ==
  /\ pc = "done"
  /\ req.ep = "schedule"
  /\ req.days = 2
  /\ calls[1].query = 20261231
  /\ calls[2].query = 20270101
  /\ FailedCall(1)
  /\ Len(RawEvents(net[2])) = 2
  /\ resp.ok
  /\ resp.output.gameCount = 2
  /\ Len(resp.output.schedule) = 2

====
